---------------------------- MODULE Spec2Model ----------------------------
(***************************************************************************)
(* Model of the tarabletft indexed-colour framebuffer driver               *)
(* (src/ttft.c, src/ttft.h, src/ttft_font.c, src/ttft_font.h).             *)
(*                                                                         *)
(* The device owns an 8-bit indexed pixel buffer of Width*Height bytes.    *)
(* Drawing primitives and the font engine write into it through            *)
(* TTFT_SetPixel, which performs no bounds check of its own.               *)
(***************************************************************************)
EXTENDS Integers, Sequences, FiniteSets, TLC

VARIABLES
    Width,              \* DeviceHandle->Width
    Height,             \* DeviceHandle->Height
    FrameBuffer,        \* DeviceHandle->FrameBuffer, index x + y*Width -> colour index
    Font,               \* DeviceHandle->Font: a font definition or NULL
    FontGetGlyphWidth,  \* DeviceHandle->FontGetGlyphWidth: "fixed", "proportional" or NULL
    Text,               \* the string the caller passes to the text calls
    oob,                \* off-screen coordinates <<x, y>> the last call aimed a pixel write at
    fault,              \* TRUE once a call has dereferenced a NULL pointer
    prev,               \* FrameBuffer as it was when the last call was entered
    op,                 \* the last call: its name, integer arguments and colour
    ret,                \* what the last call returned (0 for the void calls)
    calls,              \* the TTFT_FontDrawChar calls the last call made: <<C, x, y>> each
    nops,               \* number of drawing and text calls made so far
    Palette,            \* DeviceHandle->Palette, colour index -> true colour
    prevPalette,        \* Palette as it was when the last call was entered
    pins,               \* DeviceHandle->BacklightPin, ResetPin and DCPin
    trace,              \* what the last call did to the heap, the GPIO lines and the transport
    reads,              \* indices >= Width*Height the last call read FrameBuffer at
    failed,             \* number of TTFT_Update calls so far whose scratch allocation failed
    life                \* "none" before TTFT_Init, then "ready" or "failed"; "freed" once
                        \* TTFT_DeInit has freed the buffer and zeroed the handle

\* the part of the state the drawing and text calls leave alone
hw == <<Palette, prevPalette, pins, trace, reads, failed, life>>

vars == <<Width, Height, FrameBuffer, Font, FontGetGlyphWidth, Text,
          oob, fault, prev, op, ret, calls, nops,
          Palette, prevPalette, pins, trace, reads, failed, life>>

-----------------------------------------------------------------------------
(* Bounds of the model *)

DevWidth == 3
DevHeight == 3
MaxOps == 1
MaxLen == 2

(* The reserved colour index TTFT_SetPixel refuses to store *)
Transparent == 255

(* Colour indices used as arguments and as initial buffer contents *)
Colors == {0, 1, Transparent}

(* Coordinates handed to the primitives: one step outside the screen on each side *)
XArgs == -1 .. DevWidth
YArgs == -1 .. DevHeight

NULL == "NULL"

NoOp == [name |-> "init", args |-> <<>>, c |-> 0]

-----------------------------------------------------------------------------
(* Pixel store.  A drawing context d is [fb, oob, calls]: the buffer, the   *)
(* off-screen coordinates written so far during the call, and the          *)
(* TTFT_FontDrawChar calls made so far during the call.                    *)

Ctx(fb) == [fb |-> fb, oob |-> {}, calls |-> <<>>]

OnScreen(x, y) == x >= 0 /\ x <= Width - 1 /\ y >= 0 /\ y <= Height - 1

\* CheckBounds without its upper test
CheckBoundsMinOnly(val, min, max) == ~(val < min)

\* CheckBounds( val, min, max, return ): TRUE when the call goes on
CheckBounds(val, min, max) == ~(val < min) /\ ~(val > max)

\* TTFT_SetPixel without the test for 255
SetPixelStoresAll(d, x, y, Color) ==
    LET idx == x + (y * Width)
    IN  [d EXCEPT
           !.fb  = IF idx \in DOMAIN d.fb THEN [d.fb EXCEPT ![idx] = Color] ELSE d.fb,
           !.oob = IF OnScreen(x, y) THEN d.oob ELSE d.oob \cup {<<x, y>>}]

\* TTFT_SetPixel: no bounds check; 255 is never stored
SetPixel(d, x, y, Color) ==
    IF Color # 255
    THEN LET idx == x + (y * Width)
         IN  [d EXCEPT
                !.fb  = IF idx \in DOMAIN d.fb THEN [d.fb EXCEPT ![idx] = Color] ELSE d.fb,
                !.oob = IF OnScreen(x, y) THEN d.oob ELSE d.oob \cup {<<x, y>>}]
    ELSE d


-----------------------------------------------------------------------------
(* Primitive engine (src/ttft.c) *)

Abs(n) == IF n < 0 THEN -n ELSE n

\* TTFT_Clear written with the pixel store's rule for 255
ClearSkipsTransparent(d, Color) ==
    IF Color # 255
    THEN [d EXCEPT !.fb = [i \in 0 .. (Width * Height) - 1 |-> Color]]
    ELSE d

\* TTFT_Clear: memset over Width*Height bytes, 255 included
Clear(d, Color) == [d EXCEPT !.fb = [i \in 0 .. (Width * Height) - 1 |-> Color]]

\* TTFT_PutPixel
PutPixel(d, x, y, Color) ==
    IF CheckBounds(x, 0, Width - 1) /\ CheckBounds(y, 0, Height - 1)
    THEN SetPixel(d, x, y, Color)
    ELSE d

\* the loop of TTFT_DrawHLine with an exclusive bound, x0 < x1
RECURSIVE HLineLoopExclusive(_, _, _, _, _)
HLineLoopExclusive(d, x0, y, x1, Color) ==
    IF x0 < x1
    THEN HLineLoopExclusive(SetPixel(d, x0, y, Color), x0 + 1, y, x1, Color)
    ELSE d

\* for ( ; x0 <= x1; x0++ ) TTFT_SetPixel( x0, y )
RECURSIVE HLineLoop(_, _, _, _, _)
HLineLoop(d, x0, y, x1, Color) ==
    IF x0 <= x1 THEN HLineLoop(SetPixel(d, x0, y, Color), x0 + 1, y, x1, Color) ELSE d

\* TTFT_DrawHLine
DrawHLine(d, x0, y, x1, Color) ==
    IF /\ CheckBounds(x0, 0, Width - 1)
       /\ CheckBounds(x1, x0, Width - 1)
       /\ CheckBounds(y, 0, Height - 1)
    THEN HLineLoop(d, x0, y, x1, Color)
    ELSE d

\* for ( ; y0 <= y1; y0++ ) TTFT_SetPixel( x0, y0 )
RECURSIVE VLineLoop(_, _, _, _, _)
VLineLoop(d, x0, y0, y1, Color) ==
    IF y0 <= y1 THEN VLineLoop(SetPixel(d, x0, y0, Color), x0, y0 + 1, y1, Color) ELSE d

\* TTFT_DrawVLine
DrawVLine(d, x0, y0, y1, Color) ==
    IF /\ CheckBounds(x0, 0, Width - 1)
       /\ CheckBounds(y0, 0, Height - 1)
       /\ CheckBounds(y1, y0, Height - 1)
    THEN VLineLoop(d, x0, y0, y1, Color)
    ELSE d

\* loop of TTFT_DrawWideLine: for ( ; x <= x1; x++ )
RECURSIVE WideLoop(_, _, _, _, _, _, _, _, _)
WideLoop(d, x, y, x1, dx, dy, Incr, Error, Color) ==
    IF x <= x1
    THEN LET stepped == Error > 0
             e1 == IF stepped THEN Error - (dx * 2) ELSE Error
             y1 == IF stepped THEN y + Incr ELSE y
         IN  WideLoop(SetPixel(d, x, y, Color), x + 1, y1, x1, dx, dy, Incr,
                      e1 + (dy * 2), Color)
    ELSE d

\* TTFT_DrawWideLine
DrawWideLine(d, x0, y0, x1, y1, Color) ==
    LET dx   == x1 - x0
        dy0  == y1 - y0
        Incr == IF dy0 < 0 THEN -1 ELSE 1
        dy   == IF dy0 < 0 THEN -dy0 ELSE dy0
    IN  WideLoop(d, x0, y0, x1, dx, dy, Incr, (dy * 2) - dx, Color)

\* the loop of TTFT_DrawTallLine with the inclusive bound of the wide loop, y <= y1
RECURSIVE TallLoopInclusive(_, _, _, _, _, _, _, _, _)
TallLoopInclusive(d, x, y, y1, dx, dy, Incr, Error, Color) ==
    IF y <= y1
    THEN LET stepped == Error > 0
             e1 == IF stepped THEN Error - (dy * 2) ELSE Error
             x1 == IF stepped THEN x + Incr ELSE x
         IN  TallLoopInclusive(SetPixel(d, x, y, Color), x1, y + 1, y1, dx, dy, Incr,
                               e1 + (dx * 2), Color)
    ELSE d

\* loop of TTFT_DrawTallLine: for ( ; y < y1; y++ )
RECURSIVE TallLoop(_, _, _, _, _, _, _, _, _)
TallLoop(d, x, y, y1, dx, dy, Incr, Error, Color) ==
    IF y < y1
    THEN LET stepped == Error > 0
             e1 == IF stepped THEN Error - (dy * 2) ELSE Error
             x1 == IF stepped THEN x + Incr ELSE x
         IN  TallLoop(SetPixel(d, x, y, Color), x1, y + 1, y1, dx, dy, Incr,
                      e1 + (dx * 2), Color)
    ELSE d

\* TTFT_DrawTallLine
DrawTallLine(d, x0, y0, x1, y1, Color) ==
    LET dx0  == x1 - x0
        dy   == y1 - y0
        Incr == IF dx0 < 0 THEN -1 ELSE 1
        dx   == IF dx0 < 0 THEN -dx0 ELSE dx0
    IN  TallLoop(d, x0, y0, y1, dx, dy, Incr, (dx * 2) - dy, Color)

\* TTFT_DrawLine: only (x0, y0) is bounds-checked at entry
DrawLine(d, x0, y0, x1, y1, Color) ==
    IF ~(CheckBounds(x0, 0, Width - 1) /\ CheckBounds(y0, 0, Height - 1))
    THEN d
    ELSE IF x0 = x1 THEN DrawVLine(d, x0, y0, y1, Color)
    ELSE IF y0 = y1 THEN DrawHLine(d, x0, y0, x1, Color)
    ELSE IF Abs(x1 - x0) > Abs(y1 - y0)
         THEN IF x0 > x1
              THEN DrawWideLine(d, x1, y1, x0, y0, Color)
              ELSE DrawWideLine(d, x0, y0, x1, y1, Color)
         ELSE IF y0 > y1
              THEN DrawTallLine(d, x1, y1, x0, y0, Color)
              ELSE DrawTallLine(d, x0, y0, x1, y1, Color)

\* inner loop of TTFT_FillRect: for ( x = x0; x < ( x0 + Width ); x++ )
RECURSIVE FillRow(_, _, _, _, _)
FillRow(d, x, xEnd, y, Color) ==
    IF x < xEnd THEN FillRow(SetPixel(d, x, y, Color), x + 1, xEnd, y, Color) ELSE d

\* the outer loop of TTFT_FillRect with an exclusive bound, y0 < y1
RECURSIVE FillRowsExclusive(_, _, _, _, _, _)
FillRowsExclusive(d, x0, RectWidth, y0, y1, Color) ==
    IF y0 < y1
    THEN FillRowsExclusive(FillRow(d, x0, x0 + RectWidth, y0, Color), x0, RectWidth,
                           y0 + 1, y1, Color)
    ELSE d

\* outer loop of TTFT_FillRect: for ( ; y0 <= y1; y0++ )
RECURSIVE FillRows(_, _, _, _, _, _)
FillRows(d, x0, RectWidth, y0, y1, Color) ==
    IF y0 <= y1
    THEN FillRows(FillRow(d, x0, x0 + RectWidth, y0, Color), x0, RectWidth, y0 + 1, y1, Color)
    ELSE d

\* TTFT_FillRect
FillRect(d, x0, y0, x1, y1, Color) ==
    LET RectWidth == (x1 - x0) + 1
    IN  IF /\ CheckBounds(x0, 0, Width - 1)
           /\ CheckBounds(y0, 0, Height - 1)
           /\ CheckBounds(x1, x0, Width - 1)
           /\ CheckBounds(y1, y0, Height - 1)
        THEN FillRows(d, x0, RectWidth, y0, y1, Color)
        ELSE d

\* loop of TTFT_DrawBox: for ( i = 0; i < Thickness; i++ ), top, bottom, left, right
RECURSIVE BoxLoop(_, _, _, _, _, _, _, _)
BoxLoop(d, i, x0, y0, x1, y1, Thickness, Color) ==
    IF i < Thickness
    THEN LET top    == DrawHLine(d, x0, y0 + i, x1, Color)
             bottom == DrawHLine(top, x0, y1 - i, x1, Color)
             left   == DrawVLine(bottom, x0 + i, y0, y1, Color)
             right  == DrawVLine(left, x1 - i, y0, y1, Color)
         IN  BoxLoop(right, i + 1, x0, y0, x1, y1, Thickness, Color)
    ELSE d

\* TTFT_DrawBox
DrawBox(d, x0, y0, x1, y1, Thickness, Color) ==
    IF /\ CheckBounds(x0, 0, Width - 1)
       /\ CheckBounds(y0, 0, Height - 1)
       /\ CheckBounds(x1, x0, Width - 1)
       /\ CheckBounds(y1, y0, Height - 1)
    THEN BoxLoop(d, 0, x0, y0, x1, y1, Thickness, Color)
    ELSE d

-----------------------------------------------------------------------------
(* Font and glyph engine (src/ttft_font.c).  A font definition is the      *)
(* struct TTFT_FontDef; FontData is the glyph blob, one record of          *)
(* Width * (RoundUpFontHeight(Height) / 8) + 1 bytes per character, the    *)
(* first byte of a record being the glyph's ink width.                     *)

Newline == 10

\* A monospace font of two glyphs, 2 columns by 3 rows
FontMono ==
    [FontName |-> "Mono_2x3", Width |-> 2, Height |-> 3,
     StartChar |-> 65, EndChar |-> 66, IsMonospace |-> TRUE,
     FontData |-> <<1, 5, 2,   2, 7, 3>>]

\* A proportional font of two glyphs, at most 3 columns by 2 rows
FontProp ==
    [FontName |-> "Prop_3x2", Width |-> 3, Height |-> 2,
     StartChar |-> 65, EndChar |-> 66, IsMonospace |-> FALSE,
     FontData |-> <<1, 1, 0, 0,   3, 3, 2, 1>>]

\* DeviceHandle->Font points at one of the font definitions
Fonts == {"FontMono", "FontProp"}
Def(F) == IF F = "FontMono" THEN FontMono ELSE FontProp

\* the NULL a glyph lookup returns, glyph pointers being offsets into FontData
NullGlyph == 0 - 1

\* Character codes of the texts: newline, two covered characters, one not covered
Chars == {Newline, 65, 66, 67}

\* IsCharacterInFont with an exclusive upper bound
IsCharacterInFontExclusive(F, C) ==
    IF F = NULL THEN FALSE ELSE (C >= Def(F).StartChar) /\ (C < Def(F).EndChar)

\* IsCharacterInFont
IsCharacterInFont(F, C) ==
    IF F = NULL THEN FALSE ELSE (C >= Def(F).StartChar) /\ (C <= Def(F).EndChar)

\* RoundUpFontHeight
RoundUpFontHeight(H) ==
    IF (H % 8) # 0 THEN ((H + 7) \div 8) * 8 ELSE H

\* GetGlyphPtr: the offset of the glyph record in FontData, or NULL
GetGlyphPtr(F, C) ==
    IF F = NULL THEN NullGlyph
    ELSE IF ~CheckBounds(C, Def(F).StartChar, Def(F).EndChar) THEN NullGlyph
    ELSE (C - Def(F).StartChar) * ((Def(F).Width * (RoundUpFontHeight(Def(F).Height) \div 8)) + 1)

\* FontData[ off ], a C array read at a byte offset
ByteAt(F, off) == Def(F).FontData[off + 1]

\* GetGlyphWidthProportional
GetGlyphWidthProportional(F, C) ==
    IF F = NULL THEN 0
    ELSE IF GetGlyphPtr(F, C) = NullGlyph THEN 0
    ELSE ByteAt(F, GetGlyphPtr(F, C))

\* GetGlyphWidthFixed
GetGlyphWidthFixed(F, C) == Def(F).Width

\* a call through DeviceHandle->FontGetGlyphWidth
GlyphWidth(strategy, F, C) ==
    IF strategy = "fixed" THEN GetGlyphWidthFixed(F, C)
    ELSE GetGlyphWidthProportional(F, C)

\* BIT( YBit ) of a glyph byte
BitSet(byte, bit) == ((byte \div (2 ^ bit)) % 2) = 1

\* rows of one glyph column in TTFT_FontDrawChar:
\* for ( y = CharStartY, i = 0; y < CharEndY && i < CharHeight; y++, i++ )
RECURSIVE CharRows(_, _, _, _, _, _, _, _, _, _, _)
CharRows(d, F, x, y, i, CharEndY, CharHeight, OffsetY, GlyphData, FG, BG) ==
    IF y < CharEndY /\ i < CharHeight
    THEN LET YByte == (i + OffsetY) \div 8
             YBit  == (i + OffsetY) % 8
             col   == IF BitSet(ByteAt(F, GlyphData + YByte), YBit) THEN FG ELSE BG
         IN  CharRows(SetPixel(d, x, y, col), F, x, y + 1, i + 1, CharEndY, CharHeight,
                      OffsetY, GlyphData, FG, BG)
    ELSE d

\* columns of a glyph in TTFT_FontDrawChar: for ( x = CharStartX; x < CharEndX; x++ )
RECURSIVE CharCols(_, _, _, _, _, _, _, _, _, _, _)
CharCols(d, F, x, CharEndX, CharStartY, CharEndY, CharHeight, OffsetY, GlyphData, FG, BG) ==
    IF x < CharEndX
    THEN CharCols(CharRows(d, F, x, CharStartY, 0, CharEndY, CharHeight, OffsetY,
                           GlyphData, FG, BG),
                  F, x + 1, CharEndX, CharStartY, CharEndY, CharHeight, OffsetY,
                  GlyphData + (RoundUpFontHeight(Def(F).Height) \div 8), FG, BG)
    ELSE d

\* TTFT_FontDrawChar
FontDrawChar(d0, F, strategy, C, x, y, FG, BG) ==
    LET d == [d0 EXCEPT !.calls = Append(d0.calls, <<C, x, y>>)]
    IN  IF F = NULL \/ ~IsCharacterInFont(F, C) THEN d
        ELSE
        LET GlyphColumnLen == RoundUpFontHeight(Def(F).Height) \div 8
            CharWidth  == GlyphWidth(strategy, F, C)
            CharHeight == Def(F).Height
            EndX0      == x + CharWidth
            EndY0      == y + CharHeight
            OffsetX    == IF x < 0 THEN Abs(x) ELSE 0
            OffsetY    == IF y < 0 THEN Abs(y) ELSE 0
            GlyphData  == (GetGlyphPtr(F, C) + 1) + (OffsetX * GlyphColumnLen)
            CharStartX == x + OffsetX
            CharStartY == y + OffsetY
            CharEndX   == IF EndX0 >= Width THEN Width - 1 ELSE EndX0
            CharEndY   == IF EndY0 >= Height THEN Height - 1 ELSE EndY0
        IN  IF EndX0 < 0 \/ CharStartX >= Width \/ EndY0 < 0 \/ CharStartY >= Height
            THEN d
            ELSE CharCols(d, F, CharStartX, CharEndX, CharStartY, CharEndY, CharHeight,
                          OffsetY, GlyphData, FG, BG)

\* loop of TTFT_FontMeasureString
RECURSIVE MeasureLoop(_, _, _, _, _)
MeasureLoop(F, strategy, String, i, StringLengthPixels) ==
    IF i <= Len(String)
    THEN MeasureLoop(F, strategy, String, i + 1,
                     IF IsCharacterInFont(F, String[i])
                     THEN StringLengthPixels + GlyphWidth(strategy, F, String[i])
                     ELSE StringLengthPixels)
    ELSE StringLengthPixels

\* TTFT_FontMeasureString
FontMeasureString(F, strategy, String) ==
    IF F = NULL THEN 0 ELSE MeasureLoop(F, strategy, String, 1, 0)

\* the loop of TTFT_FontDrawString with a newline that keeps the cursor's x
RECURSIVE DrawStringLoopNoReset(_, _, _, _, _, _, _, _, _, _)
DrawStringLoopNoReset(d, F, strategy, String, i, x, y, SavedX, FG, BG) ==
    IF i <= Len(String)
    THEN IF String[i] = Newline
         THEN DrawStringLoopNoReset(d, F, strategy, String, i + 1, x, y + Def(F).Height,
                                    SavedX, FG, BG)
         ELSE IF IsCharacterInFont(F, String[i])
         THEN DrawStringLoopNoReset(FontDrawChar(d, F, strategy, String[i], x, y, FG, BG),
                                    F, strategy, String, i + 1,
                                    x + GlyphWidth(strategy, F, String[i]), y, SavedX,
                                    FG, BG)
         ELSE DrawStringLoopNoReset(d, F, strategy, String, i + 1, x, y, SavedX, FG, BG)
    ELSE [d |-> d, x |-> x]

\* loop of TTFT_FontDrawString; the result is [d, x]
RECURSIVE DrawStringLoop(_, _, _, _, _, _, _, _, _, _)
DrawStringLoop(d, F, strategy, String, i, x, y, SavedX, FG, BG) ==
    IF i <= Len(String)
    THEN IF String[i] = Newline
         THEN DrawStringLoop(d, F, strategy, String, i + 1, SavedX, y + Def(F).Height,
                             SavedX, FG, BG)
         ELSE IF IsCharacterInFont(F, String[i])
         THEN DrawStringLoop(FontDrawChar(d, F, strategy, String[i], x, y, FG, BG),
                             F, strategy, String, i + 1,
                             x + GlyphWidth(strategy, F, String[i]), y, SavedX, FG, BG)
         ELSE DrawStringLoop(d, F, strategy, String, i + 1, x, y, SavedX, FG, BG)
    ELSE [d |-> d, x |-> x]

\* TTFT_FontDrawString; the result is [d, x], x being the value returned
FontDrawString(d, F, strategy, x, y, FG, BG, String) ==
    IF F = NULL THEN [d |-> d, x |-> 0]
    ELSE IF FontMeasureString(F, strategy, String) > 0
    THEN DrawStringLoop(d, F, strategy, String, 1, x, y, x, FG, BG)
    ELSE [d |-> d, x |-> 0]

\* TextAnchor
TextAnchor_East == 0
TextAnchor_West == 1
TextAnchor_North == 2
TextAnchor_South == 3
TextAnchor_NorthEast == 4
TextAnchor_NorthWest == 5
TextAnchor_SouthEast == 6
TextAnchor_SouthWest == 7
TextAnchor_Center == 8

\* The anchors a caller passes: the nine of the enum and one value outside it
Anchors == TextAnchor_East .. (TextAnchor_Center + 1)

\* TTFT_FontGetAnchoredStringCoords halving the difference of the extents
\* where the code takes the difference of the halves
FontGetAnchoredStringCoordsHalfDiff(F, strategy, Anchor, String) ==
    LET StringWidth  == FontMeasureString(F, strategy, String)
        StringHeight == Def(F).Height
        dy   == Height - StringHeight
        dx   == Width - StringWidth
        MidY == IF dy >= 0 THEN dy \div 2 ELSE -((-dy) \div 2)
        MidX == IF dx >= 0 THEN dx \div 2 ELSE -((-dx) \div 2)
    IN  CASE Anchor = TextAnchor_East      -> <<Width - StringWidth, MidY>>
          [] Anchor = TextAnchor_West      -> <<0, MidY>>
          [] Anchor = TextAnchor_North     -> <<MidX, 0>>
          [] Anchor = TextAnchor_South     -> <<MidX, Height - StringHeight>>
          [] Anchor = TextAnchor_NorthEast -> <<Width - StringWidth, 0>>
          [] Anchor = TextAnchor_NorthWest -> <<0, 0>>
          [] Anchor = TextAnchor_SouthEast -> <<Width - StringWidth, Height - StringHeight>>
          [] Anchor = TextAnchor_SouthWest -> <<0, Height - StringHeight>>
          [] Anchor = TextAnchor_Center    -> <<MidX, MidY>>
          [] OTHER                         -> <<Width, Height>>

\* TTFT_FontGetAnchoredStringCoords, for a device with a font: <<*OutX, *OutY>>
FontGetAnchoredStringCoords(F, strategy, Anchor, String) ==
    LET StringWidth  == FontMeasureString(F, strategy, String)
        StringHeight == Def(F).Height
        MidY == (Height \div 2) - (StringHeight \div 2)
        MidX == (Width \div 2) - (StringWidth \div 2)
    IN  CASE Anchor = TextAnchor_East      -> <<Width - StringWidth, MidY>>
          [] Anchor = TextAnchor_West      -> <<0, MidY>>
          [] Anchor = TextAnchor_North     -> <<MidX, 0>>
          [] Anchor = TextAnchor_South     -> <<MidX, Height - StringHeight>>
          [] Anchor = TextAnchor_NorthEast -> <<Width - StringWidth, 0>>
          [] Anchor = TextAnchor_NorthWest -> <<0, 0>>
          [] Anchor = TextAnchor_SouthEast -> <<Width - StringWidth, Height - StringHeight>>
          [] Anchor = TextAnchor_SouthWest -> <<0, Height - StringHeight>>
          [] Anchor = TextAnchor_Center    -> <<MidX, MidY>>
          [] OTHER                         -> <<Width, Height>>

\* TTFT_FontDrawAnchoredString, for a device with a font; the result is [d, x]
FontDrawAnchoredString(d, F, strategy, Anchor, String, FG, BG) ==
    LET at == FontGetAnchoredStringCoords(F, strategy, Anchor, String)
    IN  FontDrawString(d, F, strategy, at[1], at[2], FG, BG, String)

-----------------------------------------------------------------------------
(* Transport and update pipeline (src/ttft.c, src/ttft.h).  A hardware     *)
(* context h is [trace, sent, reads, pins]: the events of the call so far, *)
(* the number of transfers handed to spi_device_transmit so far, the       *)
(* indices past the end of the pixel buffer read so far, and the pins of   *)
(* the device handle.  The events are                                      *)
(*   [kind |-> "gpio", line, pin, level]     a gpio_set_level              *)
(*   [kind |-> "spi", cmd, data, bytes, ok]  a spi_device_transmit         *)
(*   [kind |-> "alloc", ok], [kind |-> "free"]  the scratch buffer         *)
(* and those of TTFT_Init below.  fails is the set of transfers, counted   *)
(* from 1 within the call, that the transport reports as failed.           *)

LineUpdateCount == 4

\* sizeof( Color_t ), Color_t being uint16_t
PixelSize == 2

HwWith(p) == [trace |-> <<>>, sent |-> 0, reads |-> {}, pins |-> p]
Hw == HwWith(pins)

Event(h, e) == [h EXCEPT !.trace = Append(h.trace, e)]

\* RGB( r, g, b ): RGB565, byte-swapped
RGB(r, g, b) ==
    LET v == (((r % 256) \div 8) * 2048) + (((g % 256) \div 4) * 32) + ((b % 256) \div 8)
    IN  ((v % 256) * 256) + (v \div 256)

\* MakeUser( Pin, Command ): Pin | ( Command << 8 ); -1 has every bit set
MakeUser(Pin, Command) == IF Pin = 0 - 1 THEN Pin ELSE Pin + (Command * 256)

\* TTFT_PreTransferCallback: the D/C pin and level are unpacked from the tag
PreTransferCallback(h, User) ==
    Event(h, [kind |-> "gpio", line |-> "dc", pin |-> User % 256,
              level |-> (User \div 256) % 256])

\* TTFT_SPIWrite tagging every transfer as a command
SPIWriteAllCommands(h, Data, DataLength, IsCommand, fails) ==
    IF DataLength > 0
    THEN LET h1 == PreTransferCallback(h, MakeUser(h.pins.DCPin, 0))
         IN  [Event(h1, [kind |-> "spi", cmd |-> TRUE, data |-> Data,
                         bytes |-> DataLength, ok |-> (h.sent + 1) \notin fails])
                EXCEPT !.sent = h.sent + 1]
    ELSE h

\* TTFT_SPIWrite: a failed transfer is logged and the function returns
SPIWrite(h, Data, DataLength, IsCommand, fails) ==
    IF DataLength > 0
    THEN LET h1 == PreTransferCallback(h, MakeUser(h.pins.DCPin, IF IsCommand THEN 0 ELSE 1))
         IN  [Event(h1, [kind |-> "spi", cmd |-> IsCommand, data |-> Data,
                         bytes |-> DataLength, ok |-> (h.sent + 1) \notin fails])
                EXCEPT !.sent = h.sent + 1]
    ELSE h

\* TTFT_SendCommand( DeviceHandle, Command, ... ): the command byte, then its data
SendCommand(h, Command, Data, fails) ==
    SPIWrite(SPIWrite(h, <<Command>>, 1, TRUE, fails), Data, Len(Data), FALSE, fails)

\* TTFT_SetAddressWindow
SetAddressWindow(h, x0, y0, x1, y1, fails) ==
    IF /\ CheckBounds(x0, 0, x1)
       /\ CheckBounds(x1, x0, Width - 1)
       /\ CheckBounds(y0, 0, y1)
       /\ CheckBounds(y1, y0, Height - 1)
    THEN LET col  == SendCommand(h, 42,
                        <<(x0 \div 256) % 256, x0 % 256, (x1 \div 256) % 256, x1 % 256>>,
                        fails)
             page == SendCommand(col, 43,
                        <<(y0 \div 256) % 256, y0 % 256, (y1 \div 256) % 256, y1 % 256>>,
                        fails)
         IN  SendCommand(page, 44, <<>>, fails)
    ELSE h

\* the bytes past the end of the pixel buffer that TTFT_Update can reach
OverRange == (Width * Height) .. ((Width * LineUpdateCount * ((Height + 3) \div LineUpdateCount)) - 1)

\* *Ptr: a byte of the pixel buffer, or of the heap after it
ByteRead(fb, heap, idx) == IF idx \in DOMAIN fb THEN fb[idx] ELSE heap[idx]

\* the transfers one TTFT_Update hands to the transport
Transfers == 5 + ((Height + (LineUpdateCount - 1)) \div LineUpdateCount)

\* loop of TTFT_Update: for ( y = 0; y < Height; y+= LineUpdateCount )
RECURSIVE UpdateLoop(_, _, _, _, _, _)
UpdateLoop(h, fb, heap, y, Ptr, fails) ==
    IF y < Height
    THEN LET n          == Width * LineUpdateCount
             LineBuffer == [i \in 1 .. n |-> Palette[ByteRead(fb, heap, Ptr + (i - 1))]]
             h1 == [h EXCEPT !.reads = h.reads \cup
                                       {j \in Ptr .. (Ptr + n) - 1 : j \notin DOMAIN fb}]
         IN  UpdateLoop(SPIWrite(h1, LineBuffer, n * PixelSize, FALSE, fails),
                        fb, heap, y + LineUpdateCount, Ptr + n, fails)
    ELSE h

\* TTFT_Update going on without its scratch buffer
UpdateIgnoresAlloc(fb, allocOk, fails, heap) ==
    LET h1 == Event(Hw, [kind |-> "alloc", ok |-> allocOk])
        h2 == SetAddressWindow(h1, 0, 0, Width - 1, Height - 1, fails)
        h3 == UpdateLoop(h2, fb, heap, 0, 0, fails)
    IN  Event(h3, [kind |-> "free"])

\* TTFT_Update
Update(fb, allocOk, fails, heap) ==
    LET h1 == Event(Hw, [kind |-> "alloc", ok |-> allocOk])
    IN  IF ~allocOk THEN h1
        ELSE LET h2 == SetAddressWindow(h1, 0, 0, Width - 1, Height - 1, fails)
                 h3 == UpdateLoop(h2, fb, heap, 0, 0, fails)
             IN  Event(h3, [kind |-> "free"])

\* TTFT_SetPaletteEntry
SetPaletteEntry(pal, Index, Red, Green, Blue) ==
    [pal EXCEPT ![Index] = RGB(Red, Green, Blue)]

-----------------------------------------------------------------------------
(* Device lifecycle and GPIO lines (src/ttft.c).  A pin is a GPIO number   *)
(* or -1 for a line that is not wired.  The GPIO numbers of the model are  *)
(* valid ones, for which gpio_set_level reports no error.                  *)

\* TTFT_SetBacklight without the test for an unused pin
SetBacklightUnguarded(h, On) ==
    Event(h, [kind |-> "gpio", line |-> "backlight", pin |-> h.pins.BacklightPin,
              level |-> IF On THEN 1 ELSE 0])

\* TTFT_SetBacklight
SetBacklight(h, On) ==
    IF h.pins.BacklightPin > -1
    THEN Event(h, [kind |-> "gpio", line |-> "backlight", pin |-> h.pins.BacklightPin,
                   level |-> IF On THEN 1 ELSE 0])
    ELSE h

\* The commands TTFT_Reset_ST7735 sends, each with its data bytes
ResetScript_ST7735 ==
    << <<1, <<>>>>, <<17, <<>>>>, <<38, <<4>>>>, <<58, <<85>>>>, <<54, <<0>>>>,
       <<19, <<>>>>, <<177, <<6, 1, 1>>>>, <<41, <<>>>> >>

RECURSIVE SendScript(_, _, _)
SendScript(h, script, fails) ==
    IF script = <<>> THEN h
    ELSE SendScript(SendCommand(h, Head(script)[1], Head(script)[2], fails),
                    Tail(script), fails)

\* the reset pulse of TTFT_Reset_ST7735: high, low, high
ResetPulse(h) ==
    LET lv(g, l) == Event(g, [kind |-> "gpio", line |-> "reset", pin |-> h.pins.ResetPin,
                              level |-> l])
    IN  IF h.pins.ResetPin > -1 THEN lv(lv(lv(h, 1), 0), 1) ELSE h

\* TTFT_Reset_ST7735, the reset procedure the caller hands to TTFT_Init
Reset_ST7735(h, fails) == SendScript(ResetPulse(h), ResetScript_ST7735, fails)

\* ResetProc( DeviceHandle )
ResetProc(h, fails) == Reset_ST7735(Event(h, [kind |-> "ResetProc"]), fails)

\* the default levels TTFT_Init gives the wired lines
DefaultLevels(h) ==
    LET lv(g, line, pin) ==
            IF pin > -1
            THEN Event(g, [kind |-> "gpio", line |-> line, pin |-> pin, level |-> 0])
            ELSE g
    IN  lv(lv(lv(h, "reset", h.pins.ResetPin), "backlight", h.pins.BacklightPin),
           "dc", h.pins.DCPin)

\* TTFT_Init calling the reset procedure before it has attached the transport
TTFT_InitResetsBeforeAttach(handleNull, p, mallocOk, configOk, attachOk, fails) ==
    IF handleNull \/ p.DCPin = -1
    THEN [h |-> HwWith(p), ret |-> 0, set |-> "nothing"]
    ELSE LET h1 == Event(HwWith(p), [kind |-> "malloc", ok |-> mallocOk])
         IN  IF ~mallocOk THEN [h |-> h1, ret |-> 0, set |-> "FrameBuffer"]
             ELSE LET h2 == Event(DefaultLevels(h1), [kind |-> "gpio_config", ok |-> configOk])
                  IN  IF ~configOk THEN [h |-> h2, ret |-> 0, set |-> "all"]
                      ELSE LET h3 == ResetProc(h2, fails)
                               h4 == Event(h3, [kind |-> "spi_bus_add_device", ok |-> attachOk])
                           IN  IF ~attachOk THEN [h |-> h4, ret |-> 0, set |-> "all"]
                               ELSE [h |-> SetBacklight(h4, TRUE), ret |-> 1, set |-> "all"]

\* TTFT_Init.  p holds the DCPin, ResetPin and BacklightPin arguments.  The
\* result is [h, ret, set]: what the call did, what it returned (1 for true)
\* and how much of the handle it wrote
TTFT_Init(handleNull, p, mallocOk, configOk, attachOk, fails) ==
    IF handleNull \/ p.DCPin = -1
    THEN [h |-> HwWith(p), ret |-> 0, set |-> "nothing"]
    ELSE LET h1 == Event(HwWith(p), [kind |-> "malloc", ok |-> mallocOk])
         IN  IF ~mallocOk THEN [h |-> h1, ret |-> 0, set |-> "FrameBuffer"]
             ELSE LET h2 == Event(DefaultLevels(h1), [kind |-> "gpio_config", ok |-> configOk])
                  IN  IF ~configOk THEN [h |-> h2, ret |-> 0, set |-> "all"]
                      ELSE LET h3 == Event(h2, [kind |-> "spi_bus_add_device", ok |-> attachOk])
                           IN  IF ~attachOk THEN [h |-> h3, ret |-> 0, set |-> "all"]
                               ELSE [h |-> SetBacklight(ResetProc(h3, fails), TRUE),
                                     ret |-> 1, set |-> "all"]

-----------------------------------------------------------------------------
(* The device after TTFT_Init: Font and FontGetGlyphWidth are NULL, and    *)
(* malloc( Width * Height ) is not cleared, so the buffer starts with      *)
(* whatever the heap held; the model starts it from uniform fills.         *)

Filled(w, h, c) == [i \in 0 .. (w * h) - 1 |-> c]

\* DeviceHandle->FrameBuffer == NULL: the handle has been zeroed by TTFT_DeInit
FrameBufferNull == life = "freed"

\* NullCheck( DeviceHandle->FrameBuffer, return ) at the head of a call: the
\* call leaves d when the pointer is NULL and goes on to drawn otherwise
NullChecked(d, drawn) == IF FrameBufferNull THEN d ELSE drawn

\* the pins of a device with all three lines wired
DefaultPins == [BacklightPin |-> 4, ResetPin |-> 3, DCPin |-> 2]

InitDevice(w, h, c) ==
    /\ Width = w
    /\ Height = h
    /\ FrameBuffer = Filled(w, h, c)
    /\ Font = NULL
    /\ FontGetGlyphWidth = NULL
    /\ oob = {}
    /\ fault = FALSE
    /\ prev = FrameBuffer
    /\ op = NoOp
    /\ ret = 0
    /\ calls = <<>>
    /\ nops = 0
    /\ Palette = [i \in Colors |-> 0]
    /\ prevPalette = Palette
    /\ pins = DefaultPins
    /\ trace = <<>>
    /\ reads = {}
    /\ failed = 0
    /\ life = "ready"

\* Uniform contents the buffer starts from
InitFills == {0, 1}

Init ==
    /\ \E c \in InitFills : InitDevice(DevWidth, DevHeight, c)
    /\ Text = <<>>

\* The caller is between two calls
Idle == op.name \in {"init", "return"}

\* A call is made by an idle caller on a device whose earlier calls stayed
\* inside the buffer and dereferenced no NULL pointer
CanCall == Idle /\ nops < MaxOps /\ oob = {} /\ ~fault

\* Common effect of a drawing or text call: d is the drawing context it leaves,
\* r the value it returns
Called(name, args, c, d, r) ==
    /\ FrameBuffer' = d.fb
    /\ oob' = d.oob
    /\ calls' = d.calls
    /\ prev' = FrameBuffer
    /\ op' = [name |-> name, args |-> args, c |-> c]
    /\ ret' = r
    /\ nops' = nops + 1
    /\ UNCHANGED <<Width, Height, Font, FontGetGlyphWidth, Text, fault>>
    /\ UNCHANGED hw

ClearCall ==
    /\ CanCall
    /\ \E c \in Colors : Called("clear", <<>>, c,
                              NullChecked(Ctx(FrameBuffer), Clear(Ctx(FrameBuffer), c)), 0)

PutPixelCall ==
    /\ CanCall
    /\ \E x \in XArgs, y \in YArgs, c \in Colors :
          Called("putPixel", <<x, y>>, c,
                 NullChecked(Ctx(FrameBuffer), PutPixel(Ctx(FrameBuffer), x, y, c)), 0)

DrawHLineCall ==
    /\ CanCall
    /\ \E x0 \in XArgs, y \in YArgs, x1 \in XArgs, c \in Colors :
          Called("drawHLine", <<x0, y, x1>>, c,
                 NullChecked(Ctx(FrameBuffer), DrawHLine(Ctx(FrameBuffer), x0, y, x1, c)),
                 0)

DrawVLineCall ==
    /\ CanCall
    /\ \E x0 \in XArgs, y0 \in YArgs, y1 \in YArgs, c \in Colors :
          Called("drawVLine", <<x0, y0, y1>>, c,
                 NullChecked(Ctx(FrameBuffer), DrawVLine(Ctx(FrameBuffer), x0, y0, y1, c)),
                 0)

DrawLineCall ==
    /\ CanCall
    /\ \E x0 \in XArgs, y0 \in YArgs, x1 \in XArgs, y1 \in YArgs, c \in Colors :
          Called("drawLine", <<x0, y0, x1, y1>>, c,
                 DrawLine(Ctx(FrameBuffer), x0, y0, x1, y1, c), 0)

FillRectCall ==
    /\ CanCall
    /\ \E x0 \in XArgs, y0 \in YArgs, x1 \in XArgs, y1 \in YArgs, c \in Colors :
          Called("fillRect", <<x0, y0, x1, y1>>, c,
                 NullChecked(Ctx(FrameBuffer),
                             FillRect(Ctx(FrameBuffer), x0, y0, x1, y1, c)), 0)

\* The caller moves on: nothing of the last call is remembered but the device
Return ==
    /\ ~Idle
    /\ op' = [name |-> "return", args |-> <<>>, c |-> 0]
    /\ prev' = FrameBuffer
    /\ ret' = 0
    /\ calls' = <<>>
    /\ prevPalette' = Palette
    /\ trace' = <<>>
    /\ reads' = {}
    /\ UNCHANGED <<Width, Height, FrameBuffer, Font, FontGetGlyphWidth, Text,
                   oob, fault, nops, Palette, pins, failed, life>>

Next ==
    \/ ClearCall
    \/ PutPixelCall
    \/ DrawHLineCall
    \/ DrawVLineCall
    \/ DrawLineCall
    \/ FillRectCall
    \/ Return

Spec == Init /\ [][Next]_vars

-----------------------------------------------------------------------------
(* Text calls.  The device sizes <<Width, Height>> cover odd and even      *)
(* extents.                                                                *)

TextSizes == {<<DevWidth - 1, DevHeight - 1>>, <<DevWidth, DevHeight>>}

Strings == UNION {[1 .. n -> Chars] : n \in 0 .. MaxLen}

\* Origins <<x, y>> and colour pairs <<FGColor, BGColor>> handed to
\* TTFT_FontDrawString
TextOrigins == {<<0, 0>>, <<1, 0>>, <<-1, 1>>}
TextColors == {<<1, 0>>, <<1, Transparent>>}

InitFont ==
    /\ \E wh \in TextSizes : InitDevice(wh[1], wh[2], 0)
    /\ Text \in Strings

\* A font call leaves the buffer alone
FontSet(name, F, strategy) ==
    /\ Font' = F
    /\ FontGetGlyphWidth' = strategy
    /\ op' = [name |-> name, args |-> <<>>, c |-> 0]
    /\ prev' = FrameBuffer
    /\ ret' = 0
    /\ calls' = <<>>
    /\ UNCHANGED <<Width, Height, FrameBuffer, Text, oob, fault, nops>>
    /\ UNCHANGED hw

\* TTFT_SetFont
SetFont ==
    /\ CanCall
    /\ \E F \in Fonts :
          FontSet("setFont", F, IF Def(F).IsMonospace THEN "fixed" ELSE "proportional")

\* TTFT_SetFontProportional
SetFontProportional ==
    /\ CanCall
    /\ FontSet("setFontProportional", Font,
               IF Font = NULL THEN FontGetGlyphWidth ELSE "proportional")

\* TTFT_SetFontFixed
SetFontFixed ==
    /\ CanCall
    /\ FontSet("setFontFixed", Font, IF Font = NULL THEN FontGetGlyphWidth ELSE "fixed")

MeasureStringCall ==
    /\ CanCall
    /\ Called("measureString", <<>>, 0, Ctx(FrameBuffer),
              IF FrameBufferNull THEN 0
              ELSE FontMeasureString(Font, FontGetGlyphWidth, Text))

DrawStringCall ==
    /\ CanCall
    /\ \E at \in TextOrigins, col \in TextColors :
          LET r == NullChecked([d |-> Ctx(FrameBuffer), x |-> 0],
                               FontDrawString(Ctx(FrameBuffer), Font, FontGetGlyphWidth,
                                              at[1], at[2], col[1], col[2], Text))
          IN  Called("drawString", <<at[1], at[2], col[1], col[2]>>, 0, r.d, r.x)

\* TTFT_FontDrawAnchoredString; without a font TTFT_FontGetAnchoredStringCoords
\* reads DeviceHandle->Font->Height through the NULL pointer
DrawAnchoredStringCall ==
    /\ CanCall
    /\ \E Anchor \in Anchors, col \in {<<1, 0>>} :
          IF Font = NULL
          THEN /\ fault' = TRUE
               /\ op' = [name |-> "drawAnchoredString",
                         args |-> <<Anchor, col[1], col[2]>>, c |-> 0]
               /\ prev' = FrameBuffer
               /\ ret' = 0
               /\ calls' = <<>>
               /\ nops' = nops + 1
               /\ UNCHANGED <<Width, Height, FrameBuffer, Font, FontGetGlyphWidth,
                              Text, oob>>
               /\ UNCHANGED hw
          ELSE LET r == FontDrawAnchoredString(Ctx(FrameBuffer), Font, FontGetGlyphWidth,
                                               Anchor, Text, col[1], col[2])
               IN  Called("drawAnchoredString", <<Anchor, col[1], col[2]>>, 0, r.d, r.x)

NextFont ==
    \/ SetFont
    \/ SetFontProportional
    \/ SetFontFixed
    \/ MeasureStringCall
    \/ DrawStringCall
    \/ DrawAnchoredStringCall
    \/ Return

SpecFont == InitFont /\ [][NextFont]_vars

-----------------------------------------------------------------------------
(* Update calls.  The pixel buffer starts striped, so that the order of    *)
(* the stream shows; the heights cover one partial chunk, one whole chunk  *)
(* and a whole chunk followed by a partial one.                            *)

MaxUpdates == 2

UpdateSizes == {<<DevWidth, DevHeight>>, <<DevWidth - 1, LineUpdateCount>>,
                <<1, LineUpdateCount + 1>>}

Striped(w, h, c) == [i \in 0 .. (w * h) - 1 |-> (i + c) % 2]

InitUpdate ==
    /\ \E wh \in UpdateSizes, c \in InitFills :
          /\ Width = wh[1]
          /\ Height = wh[2]
          /\ FrameBuffer = Striped(wh[1], wh[2], c)
    /\ Font = NULL
    /\ FontGetGlyphWidth = NULL
    /\ Text = <<>>
    /\ oob = {}
    /\ fault = FALSE
    /\ prev = FrameBuffer
    /\ op = NoOp
    /\ ret = 0
    /\ calls = <<>>
    /\ nops = 0
    /\ Palette = [i \in Colors |-> 0]
    /\ prevPalette = Palette
    /\ pins = DefaultPins
    /\ trace = <<>>
    /\ reads = {}
    /\ failed = 0
    /\ life = "ready"

\* Palette entries and the colours written to them
PaletteIndices == {0, 1}
RGBArgs == {<<0, 0, 0>>, <<255, 255, 255>>, <<255, 0, 0>>}

\* The transfers of a call that the transport fails: none, any one, or all
FailSets(n) == {{}} \cup {{k} : k \in 1 .. n} \cup {1 .. n}

SetPaletteEntryCall ==
    /\ Idle /\ life = "ready"
    /\ \E Index \in PaletteIndices, rgb \in RGBArgs :
          Palette' = SetPaletteEntry(Palette, Index, rgb[1], rgb[2], rgb[3])
    /\ op' = [name |-> "setPaletteEntry", args |-> <<>>, c |-> 0]
    /\ prev' = FrameBuffer
    /\ prevPalette' = Palette
    /\ ret' = 0
    /\ calls' = <<>>
    /\ trace' = <<>>
    /\ reads' = {}
    /\ UNCHANGED <<Width, Height, FrameBuffer, Font, FontGetGlyphWidth, Text,
                   oob, fault, nops, pins, failed, life>>

\* TTFT_Update: the allocation of the scratch buffer may fail, each transfer
\* may fail, and the bytes after the pixel buffer hold whatever the heap holds
UpdateCall ==
    /\ Idle /\ life \notin {"none", "failed"} /\ nops < MaxUpdates
    /\ \E allocOk \in BOOLEAN, fails \in FailSets(Transfers), heap \in [OverRange -> Colors] :
          LET h == NullChecked(Hw, Update(FrameBuffer, allocOk, fails, heap))
          IN  /\ trace' = h.trace
              /\ reads' = h.reads
              /\ failed' = IF allocOk \/ FrameBufferNull THEN failed ELSE failed + 1
    /\ op' = [name |-> "update", args |-> <<>>, c |-> 0]
    /\ prev' = FrameBuffer
    /\ prevPalette' = Palette
    /\ ret' = 0
    /\ calls' = <<>>
    /\ nops' = nops + 1
    /\ UNCHANGED <<Width, Height, FrameBuffer, Font, FontGetGlyphWidth, Text,
                   oob, fault, Palette, pins, life>>

NextUpdate ==
    \/ SetPaletteEntryCall
    \/ UpdateCall
    \/ Return

SpecUpdate == InitUpdate /\ [][NextUpdate]_vars

-----------------------------------------------------------------------------
(* Lifecycle calls.  The handle starts zeroed and not initialised; the     *)
(* caller wires each line or leaves it unused.                             *)

ZeroPins == [BacklightPin |-> 0, ResetPin |-> 0, DCPin |-> 0]

PinArgs == [BacklightPin : {-1, 4}, ResetPin : {-1, 3}, DCPin : {-1, 2}]

\* transfers of one TTFT_Reset_ST7735: 8 command bytes and 4 data blocks
ResetTransfers == Len(ResetScript_ST7735) +
                  Cardinality({i \in DOMAIN ResetScript_ST7735 : ResetScript_ST7735[i][2] # <<>>})

InitLife ==
    /\ Width = 0
    /\ Height = 0
    /\ FrameBuffer = <<>>
    /\ Font = NULL
    /\ FontGetGlyphWidth = NULL
    /\ Text = <<>>
    /\ oob = {}
    /\ fault = FALSE
    /\ prev = FrameBuffer
    /\ op = NoOp
    /\ ret = 0
    /\ calls = <<>>
    /\ nops = 0
    /\ Palette = [i \in Colors |-> 0]
    /\ prevPalette = Palette
    /\ pins = ZeroPins
    /\ trace = <<>>
    /\ reads = {}
    /\ failed = 0
    /\ life = "none"

\* TTFT_Init on the handle, or on a NULL handle
InitCall ==
    /\ Idle /\ life = "none"
    /\ \E handleNull \in BOOLEAN, p \in PinArgs, c \in InitFills,
          mallocOk \in BOOLEAN, configOk \in BOOLEAN, attachOk \in BOOLEAN,
          fails \in FailSets(ResetTransfers) :
          LET r == TTFT_Init(handleNull, p, mallocOk, configOk, attachOk, fails)
          IN  /\ trace' = r.h.trace
              /\ ret' = r.ret
              /\ op' = [name |-> "TTFT_Init",
                        args |-> <<IF handleNull THEN 1 ELSE 0, p.DCPin, p.ResetPin,
                                   p.BacklightPin>>,
                        c |-> 0]
              /\ life' = IF r.ret = 1 THEN "ready"
                         ELSE IF handleNull THEN "none" ELSE "failed"
              /\ IF r.set = "all"
                 THEN /\ Width' = DevWidth
                      /\ Height' = DevHeight
                      /\ FrameBuffer' = Filled(DevWidth, DevHeight, c)
                      /\ pins' = p
                 ELSE UNCHANGED <<Width, Height, FrameBuffer, pins>>
    /\ prev' = FrameBuffer'
    /\ prevPalette' = Palette
    /\ calls' = <<>>
    /\ reads' = {}
    /\ UNCHANGED <<Font, FontGetGlyphWidth, Text, oob, fault, nops, Palette, failed>>

\* a call that only drives lines and the transport
Driven(name, args, h) ==
    /\ trace' = h.trace
    /\ op' = [name |-> name, args |-> args, c |-> 0]
    /\ prev' = FrameBuffer
    /\ prevPalette' = Palette
    /\ ret' = 0
    /\ calls' = <<>>
    /\ reads' = {}
    /\ UNCHANGED <<Width, Height, FrameBuffer, Font, FontGetGlyphWidth, Text,
                   oob, fault, nops, Palette, pins, failed, life>>

SetBacklightCall ==
    /\ Idle /\ life = "ready"
    /\ \E On \in BOOLEAN :
          Driven("setBacklight", <<IF On THEN 1 ELSE 0>>, SetBacklight(Hw, On))

\* TTFT_Reset_ST7735 called again by the caller
ResetCall ==
    /\ Idle /\ life = "ready"
    /\ \E fails \in FailSets(ResetTransfers) :
          Driven("reset", <<>>, Reset_ST7735(Hw, fails))

NextLife ==
    \/ InitCall
    \/ SetBacklightCall
    \/ ResetCall
    \/ Return

SpecLife == InitLife /\ [][NextLife]_vars

-----------------------------------------------------------------------------
(* Box calls *)

\* Thicknesses handed to TTFT_DrawBox: none, and up to more than a rectangle holds
Thicknesses == 0 .. DevHeight

DrawBoxCall ==
    /\ CanCall
    /\ \E x0 \in XArgs, y0 \in YArgs, x1 \in XArgs, y1 \in YArgs,
          t \in Thicknesses, c \in Colors :
          Called("drawBox", <<x0, y0, x1, y1, t>>, c,
                 NullChecked(Ctx(FrameBuffer),
                             DrawBox(Ctx(FrameBuffer), x0, y0, x1, y1, t, c)), 0)

NextBox ==
    \/ ClearCall
    \/ DrawBoxCall
    \/ Return

SpecBox == Init /\ [][NextBox]_vars

-----------------------------------------------------------------------------
(* Character calls *)

InitChar ==
    /\ \E wh \in TextSizes : InitDevice(wh[1], wh[2], 0)
    /\ Text = <<>>

\* TTFT_FontDrawChar called by the caller, one step outside the screen included
DrawCharCall ==
    /\ CanCall
    /\ \E C \in Chars, x \in -1 .. Width, y \in -1 .. Height, col \in TextColors :
          Called("drawChar", <<C, x, y, col[1], col[2]>>, 0,
                 FontDrawChar(Ctx(FrameBuffer), Font, FontGetGlyphWidth, C, x, y,
                              col[1], col[2]), 0)

NextChar ==
    \/ SetFont
    \/ SetFontProportional
    \/ SetFontFixed
    \/ DrawCharCall
    \/ Return

SpecChar == InitChar /\ [][NextChar]_vars

-----------------------------------------------------------------------------
(* The end of the lifecycle.  TTFT_DeInit frees the pixel buffer and zeroes *)
(* the handle, after which the caller may go on calling into the library.  *)

\* the fields of the device handle
Handle ==
    [life |-> life, Width |-> Width, Height |-> Height, FrameBuffer |-> FrameBuffer,
     Font |-> Font, FontGetGlyphWidth |-> FontGetGlyphWidth, pins |-> pins,
     Palette |-> Palette]

\* memset( DeviceHandle, 0, sizeof( struct TTFT_Device ) )
ZeroHandle ==
    [life |-> "freed", Width |-> 0, Height |-> 0, FrameBuffer |-> <<>>,
     Font |-> NULL, FontGetGlyphWidth |-> NULL, pins |-> ZeroPins,
     Palette |-> [i \in Colors |-> 0]]

\* TTFT_DeInit without its memset: the buffer is freed and the handle keeps
\* its pointer, extent and font
DeInitKeepsHandle(handleNull, dev) ==
    IF handleNull THEN [dev |-> dev, trace |-> <<>>]
    ELSE [dev   |-> [dev EXCEPT !.life = "dangling"],
          trace |-> IF dev.life # "freed" THEN <<[kind |-> "free"]>> ELSE <<>>]

\* TTFT_DeInit; the result is [dev, trace]: the handle it leaves and what it did
DeInit(handleNull, dev) ==
    IF handleNull THEN [dev |-> dev, trace |-> <<>>]
    ELSE [dev   |-> ZeroHandle,
          trace |-> IF dev.life # "freed" THEN <<[kind |-> "free"]>> ELSE <<>>]

\* Texts handed to the text calls
FreeTexts == {<<>>, <<65, 66>>}

InitFree ==
    /\ \E c \in InitFills : InitDevice(DevWidth, DevHeight, c)
    /\ Text \in FreeTexts

\* the buffer of the device has been freed
Freed == life \in {"freed", "dangling"}

\* TTFT_DeInit on the handle, or on a NULL handle; args records whether the
\* handle was NULL and whether the buffer had been freed before the call
DeInitCall ==
    /\ Idle /\ life \notin {"none", "failed"}
    /\ \E handleNull \in BOOLEAN :
          LET r == DeInit(handleNull, Handle)
          IN  /\ life' = r.dev.life
              /\ Width' = r.dev.Width
              /\ Height' = r.dev.Height
              /\ FrameBuffer' = r.dev.FrameBuffer
              /\ Font' = r.dev.Font
              /\ FontGetGlyphWidth' = r.dev.FontGetGlyphWidth
              /\ pins' = r.dev.pins
              /\ Palette' = r.dev.Palette
              /\ trace' = r.trace
              /\ op' = [name |-> "deInit",
                        args |-> <<IF handleNull THEN 1 ELSE 0, IF Freed THEN 1 ELSE 0>>,
                        c |-> 0]
    /\ prev' = FrameBuffer'
    /\ prevPalette' = Palette'
    /\ ret' = 0
    /\ calls' = <<>>
    /\ reads' = {}
    /\ UNCHANGED <<Text, oob, fault, nops, failed>>

\* The calls a caller makes on the handle after TTFT_DeInit
CallAfterDeInit ==
    /\ Freed
    /\ \/ ClearCall
       \/ PutPixelCall
       \/ DrawHLineCall
       \/ DrawVLineCall
       \/ DrawLineCall
       \/ FillRectCall
       \/ DrawBoxCall
       \/ DrawCharCall
       \/ DrawStringCall
       \/ MeasureStringCall
       \/ UpdateCall

NextFree ==
    \/ (life = "ready" /\ SetFont)
    \/ DeInitCall
    \/ CallAfterDeInit
    \/ Return

SpecFree == InitFree /\ [][NextFree]_vars

-----------------------------------------------------------------------------
(* Properties of the drawing primitives, stated on the state a call leaves: *)
(* op is the call, prev the buffer it found, FrameBuffer the buffer it     *)
(* left, oob the off-screen coordinates it wrote to.                       *)

Pixels == 0 .. (Width * Height) - 1
XRange == 0 .. Width - 1
YRange == 0 .. Height - 1
Arg(i) == op.args[i]

\* the buffer prev with the pixels at the coordinates in S set to colour c
Painted(S, c) ==
    [i \in Pixels |-> IF \E xy \in S : i = xy[1] + (xy[2] * Width) THEN c ELSE prev[i]]

\* number of pixels whose stored index differs from the one the call found
Changed == Cardinality({i \in Pixels : FrameBuffer[i] # prev[i]})

\* C1: putPixel(x, y, c) with (x, y) on the screen stores c at (x, y) when
\* c is not 255, stores nothing when c is 255, and in both cases leaves every
\* other pixel as it was.
C1_PutPixelStores ==
    (op.name = "putPixel" /\ Arg(1) \in XRange /\ Arg(2) \in YRange) =>
        /\ DOMAIN FrameBuffer = Pixels
        /\ \A x \in XRange, y \in YRange :
              FrameBuffer[x + (y * Width)] =
                 IF x = Arg(1) /\ y = Arg(2) /\ op.c # 255
                 THEN op.c
                 ELSE prev[x + (y * Width)]
        /\ oob = {}

\* a putPixel on the screen that changed the pixel it aimed at
C1_Witness ==
    /\ op.name = "putPixel"
    /\ Arg(1) \in XRange /\ Arg(2) \in YRange
    /\ op.c # 255
    /\ prev[Arg(1) + (Arg(2) * Width)] # op.c
    /\ FrameBuffer[Arg(1) + (Arg(2) * Width)] = op.c

\* the arguments of the call break the primitive's bounds: a coordinate off
\* the screen, or an end coordinate smaller than its start coordinate
BadArgs ==
    CASE op.name = "putPixel"  -> Arg(1) \notin XRange \/ Arg(2) \notin YRange
      [] op.name = "drawHLine" -> \/ Arg(1) \notin XRange \/ Arg(3) \notin XRange
                                  \/ Arg(2) \notin YRange \/ Arg(3) < Arg(1)
      [] op.name = "drawVLine" -> \/ Arg(1) \notin XRange \/ Arg(2) \notin YRange
                                  \/ Arg(3) \notin YRange \/ Arg(3) < Arg(2)
      [] op.name = "fillRect"  -> \/ Arg(1) \notin XRange \/ Arg(3) \notin XRange
                                  \/ Arg(2) \notin YRange \/ Arg(4) \notin YRange
                                  \/ Arg(3) < Arg(1) \/ Arg(4) < Arg(2)
      [] OTHER -> FALSE

\* C2: putPixel, drawHLine, drawVLine and fillRect called with a coordinate off
\* the screen or with an end before its start write no pixel: the buffer is
\* as the call found it and nothing was written off the screen.
C2_RejectedCallWritesNothing ==
    (op.name \in {"putPixel", "drawHLine", "drawVLine", "fillRect"} /\ BadArgs) =>
        (FrameBuffer = prev /\ oob = {})

\* a rejected fillRect, with a colour that would have shown had it been stored
C2_Witness ==
    /\ op.name = "fillRect"
    /\ Arg(1) \in XRange /\ Arg(2) \in YRange /\ Arg(4) \in YRange
    /\ Arg(3) = Width
    /\ op.c # 255
    /\ \A i \in Pixels : prev[i] # op.c
    /\ FrameBuffer = prev

\* C3: drawLine with an endpoint off the screen is rejected at entry: the
\* buffer is as the call found it and nothing was written off the screen.
C3_LineRejectedAtEntry ==
    (op.name = "drawLine" /\ ~(/\ Arg(1) \in XRange /\ Arg(2) \in YRange
                               /\ Arg(3) \in XRange /\ Arg(4) \in YRange)) =>
        (FrameBuffer = prev /\ oob = {})

\* C4: drawHLine(x0, y, x1, c) with 0 <= x0 <= x1 <= Width-1, y on the screen
\* and c not 255 sets exactly the x1-x0+1 pixels (x0..x1, y) to c and leaves
\* every other pixel as it was.
C4_HLinePaintsExactly ==
    (/\ op.name = "drawHLine"
     /\ Arg(1) \in XRange /\ Arg(3) \in XRange /\ Arg(1) <= Arg(3)
     /\ Arg(2) \in YRange
     /\ op.c # 255) =>
        /\ FrameBuffer = Painted({<<x, Arg(2)>> : x \in Arg(1) .. Arg(3)}, op.c)
        /\ Cardinality({i \in Pixels : FrameBuffer[i] = op.c /\ i \div Width = Arg(2)
                                       /\ i % Width \in Arg(1) .. Arg(3)})
              = (Arg(3) - Arg(1)) + 1
        /\ oob = {}

\* a horizontal line of at least two pixels, shorter than the row, drawn on
\* a buffer that held another colour
C4_Witness ==
    /\ op.name = "drawHLine"
    /\ Arg(1) \in XRange /\ Arg(3) \in XRange /\ Arg(1) < Arg(3)
    /\ Arg(3) - Arg(1) < Width - 1
    /\ Arg(2) \in YRange
    /\ op.c # 255
    /\ \A i \in Pixels : prev[i] # op.c
    /\ Changed = (Arg(3) - Arg(1)) + 1

\* C5: fillRect(x0, y0, x1, y1, c) with 0 <= x0 <= x1 <= Width-1,
\* 0 <= y0 <= y1 <= Height-1 and c not 255 sets exactly the
\* (x1-x0+1)*(y1-y0+1) pixels of [x0,x1]x[y0,y1] to c and changes no other.
C5_FillRectPaintsExactly ==
    (/\ op.name = "fillRect"
     /\ Arg(1) \in XRange /\ Arg(3) \in XRange /\ Arg(1) <= Arg(3)
     /\ Arg(2) \in YRange /\ Arg(4) \in YRange /\ Arg(2) <= Arg(4)
     /\ op.c # 255) =>
        /\ FrameBuffer = Painted((Arg(1) .. Arg(3)) \X (Arg(2) .. Arg(4)), op.c)
        /\ Cardinality({i \in Pixels : FrameBuffer[i] = op.c
                                       /\ i \div Width \in Arg(2) .. Arg(4)
                                       /\ i % Width \in Arg(1) .. Arg(3)})
              = ((Arg(3) - Arg(1)) + 1) * ((Arg(4) - Arg(2)) + 1)
        /\ oob = {}

\* a rectangle of several rows and columns, smaller than the screen, filled
\* on a buffer that held another colour
C5_Witness ==
    /\ op.name = "fillRect"
    /\ Arg(1) \in XRange /\ Arg(3) \in XRange /\ Arg(1) < Arg(3)
    /\ Arg(2) \in YRange /\ Arg(4) \in YRange /\ Arg(2) < Arg(4)
    /\ ((Arg(3) - Arg(1)) + 1) * ((Arg(4) - Arg(2)) + 1) < Width * Height
    /\ op.c # 255
    /\ \A i \in Pixels : prev[i] # op.c
    /\ Changed = ((Arg(3) - Arg(1)) + 1) * ((Arg(4) - Arg(2)) + 1)

\* C6: drawLine is symmetric in its endpoints: for endpoints on the screen,
\* horizontal and vertical lines included, the buffer drawLine(x0,y0,x1,y1,c)
\* leaves is the buffer drawLine(x1,y1,x0,y0,c) leaves from the same start.
C6_LineSymmetric ==
    (/\ op.name = "drawLine"
     /\ Arg(1) \in XRange /\ Arg(2) \in YRange
     /\ Arg(3) \in XRange /\ Arg(4) \in YRange) =>
        FrameBuffer = DrawLine(Ctx(prev), Arg(3), Arg(4), Arg(1), Arg(2), op.c).fb

\* C7: clear(I) leaves I in every one of the Width*Height pixels, for every
\* I including 255, whatever the buffer held.
C7_ClearFillsAll ==
    (op.name = "clear") =>
        /\ DOMAIN FrameBuffer = Pixels
        /\ \A i \in Pixels : FrameBuffer[i] = op.c

\* a clear to 255 of a buffer that held no 255
C7_Witness ==
    /\ op.name = "clear"
    /\ op.c = 255
    /\ \A i \in Pixels : prev[i] # 255
    /\ \A i \in Pixels : FrameBuffer[i] = 255

-----------------------------------------------------------------------------
(* Properties of the text calls, stated on the state a call leaves: Text   *)
(* is the string, ret the value returned, calls the glyphs drawn and where. *)

\* the character code lies in [StartChar, EndChar] of the attached font
InFont(ch) == ch >= Def(Font).StartChar /\ ch <= Def(Font).EndChar

\* bytes of one glyph record: a width byte, then Width columns of ceil(Height/8) bytes
RecordLen == (Def(Font).Width * ((Def(Font).Height + 7) \div 8)) + 1

\* the glyph width the active width strategy gives a character, 0 outside the range
WidthOf(ch) ==
    IF ~InFont(ch) THEN 0
    ELSE IF FontGetGlyphWidth = "fixed" THEN Def(Font).Width
    ELSE Def(Font).FontData[((ch - Def(Font).StartChar) * RecordLen) + 1]

RECURSIVE SumWidths(_)
SumWidths(str) == IF str = <<>> THEN 0 ELSE WidthOf(Head(str)) + SumWidths(Tail(str))

\* C8: measureString(text) is the sum, over the characters of text in
\* [StartChar, EndChar], of the glyph width the active strategy gives; the
\* others count 0, so the empty string and a string of uncovered characters
\* measure 0.
C8_MeasureIsSumOfWidths ==
    (op.name = "measureString" /\ Font # NULL) =>
        /\ ret = SumWidths(Text)
        /\ (\A i \in 1 .. Len(Text) : ~InFont(Text[i])) => ret = 0
        /\ FrameBuffer = prev

\* a proportional measure of a text holding a covered and an uncovered
\* character, the result differing from the fixed-width one
C8_Witness ==
    /\ op.name = "measureString"
    /\ Font # NULL
    /\ FontGetGlyphWidth = "proportional"
    /\ \E i, j \in 1 .. Len(Text) : InFont(Text[i]) /\ ~InFont(Text[j])
    /\ ret > 0
    /\ ret # Def(Font).Width * Cardinality({i \in 1 .. Len(Text) : InFont(Text[i])})

\* C integer division, which truncates toward zero
CDiv(a, b) == IF a >= 0 THEN a \div b ELSE -((-a) \div b)

\* the last call left what TTFT_FontDrawString leaves when given the origin
\* (x, y), the colours of the call and the text
DrawnAt(x, y, FG, BG) ==
    LET r == FontDrawString(Ctx(prev), Font, FontGetGlyphWidth, x, y, FG, BG, Text)
    IN  /\ FrameBuffer = r.d.fb
        /\ calls = r.d.calls
        /\ oob = r.d.oob
        /\ ret = r.x

AnchoredAtCenter ==
    /\ op.name = "drawAnchoredString"
    /\ Arg(1) = TextAnchor_Center
    /\ Font # NULL

\* C9 as claimed: with the Center anchor the string is drawn at the origin
\* ((W - Sw) / 2, (H - Sh) / 2), Sw the measured width and Sh the font height.
C9_CenterIsHalfDifference ==
    AnchoredAtCenter =>
        DrawnAt(CDiv(Width - SumWidths(Text), 2), CDiv(Height - Def(Font).Height, 2),
                Arg(2), Arg(3))

\* C9 as amended: with the Center anchor, on a device with a font, the string
\* is drawn at the origin (W/2 - Sw/2, H/2 - Sh/2), each division an integer
\* division.
C9_CenterIsDifferenceOfHalves ==
    AnchoredAtCenter =>
        DrawnAt((Width \div 2) - (SumWidths(Text) \div 2),
                (Height \div 2) - (Def(Font).Height \div 2),
                Arg(2), Arg(3))

\* a centred string of odd width on a device of even width, its first glyph
\* drawn at W/2 - Sw/2, which is not (W - Sw)/2
C9_Witness ==
    /\ AnchoredAtCenter
    /\ Width % 2 = 0
    /\ SumWidths(Text) % 2 = 1
    /\ Len(calls) > 0
    /\ calls[1][2] = (Width \div 2) - (SumWidths(Text) \div 2)
    /\ calls[1][2] # CDiv(Width - SumWidths(Text), 2)

\* positions of the characters of Text that drawString draws
DrawnIdx == {i \in 1 .. Len(Text) : Text[i] # Newline /\ InFont(Text[i])}

\* positions of the newlines before position i
NewlinesBefore(i) == {j \in 1 .. i - 1 : Text[j] = Newline}

\* the position of the last newline before position i, 0 when there is none
LineStart(i) ==
    IF NewlinesBefore(i) = {} THEN 0
    ELSE CHOOSE j \in NewlinesBefore(i) : \A k \in NewlinesBefore(i) : k <= j

\* the cursor before the character at position i of a string drawn from (x, y)
CursorX(x, i) == x + SumWidths(SubSeq(Text, LineStart(i) + 1, i - 1))
CursorY(y, i) == y + (Def(Font).Height * Cardinality(NewlinesBefore(i)))

\* the k-th drawn position
NthDrawn(k) == CHOOSE i \in DrawnIdx : Cardinality({j \in DrawnIdx : j <= i}) = k

\* C10: drawString(x, y, fg, bg, text) returns the final cursor x: 0 when
\* measureString(text) is 0; otherwise x + measureString(text) for a text
\* without newline, every newline resetting the cursor to x and moving y down
\* by the font height, uncovered characters not advancing it.
C10_DrawStringCursor ==
    (op.name = "drawString" /\ Font # NULL) =>
        IF SumWidths(Text) = 0
        THEN ret = 0 /\ calls = <<>> /\ FrameBuffer = prev
        ELSE /\ ret = CursorX(Arg(1), Len(Text) + 1)
             /\ (\A i \in 1 .. Len(Text) : Text[i] # Newline) =>
                    ret = Arg(1) + SumWidths(Text)
             /\ calls = [k \in 1 .. Cardinality(DrawnIdx) |->
                           <<Text[NthDrawn(k)], CursorX(Arg(1), NthDrawn(k)),
                             CursorY(Arg(2), NthDrawn(k))>>]

\* the fixed-width font, drawString(0, 0, 1, 0, "AB"): the cursor returned is
\* twice the glyph width, the glyphs drawn at x = 0 and x = the glyph width
C10_Witness ==
    /\ op.name = "drawString"
    /\ Font = "FontMono" /\ FontGetGlyphWidth = "fixed"
    /\ Text = <<65, 66>>
    /\ op.args = <<0, 0, 1, 0>>
    /\ ret = 2 * FontMono.Width
    /\ calls = <<<<65, 0, 0>>, <<66, FontMono.Width, 0>>>>
    /\ FrameBuffer # prev

\* a drawString of a newline followed by a covered character: the glyph is
\* drawn at the starting x, one font height lower
C10_NewlineWitness ==
    /\ op.name = "drawString"
    /\ Font # NULL
    /\ Len(Text) = 2 /\ Text[1] = Newline /\ InFont(Text[2])
    /\ calls = <<<<Text[2], Arg(1), Arg(2) + Def(Font).Height>>>>
    /\ ret = Arg(1) + WidthOf(Text[2])

-----------------------------------------------------------------------------
(* Properties of the update pipeline, stated on the state an update        *)
(* leaves: trace is what it did, reads the indices past the pixel buffer   *)
(* it read, prev and prevPalette the buffer and palette it found.          *)

\* the transfers of the last call, in order
SpiEvents == SelectSeq(trace, LAMBDA e : e.kind = "spi")

\* the pixel chunks of the last call: the transfers after the first five,
\* which are the address-window transfers
ChunkEvents == SubSeq(SpiEvents, 6, Len(SpiEvents))

RECURSIVE Flatten(_)
Flatten(ss) == IF ss = <<>> THEN <<>> ELSE Head(ss).data \o Flatten(Tail(ss))

\* the true-colour values the last update streamed, in order
Stream == Flatten(ChunkEvents)

\* the last call is an update whose scratch allocation succeeded
Updated == op.name = "update" /\ trace[1].ok

\* C11: a successful update streams exactly Width*Height true-colour values,
\* the k-th being Palette[FrameBuffer[k]], in chunks of whole scanlines, and
\* reads no index >= Width*Height of the pixel buffer.
C11_UpdateStreamsExactlyTheFrame ==
    Updated =>
        /\ Len(Stream) = Width * Height
        /\ \A k \in 0 .. (Width * Height) - 1 : Stream[k + 1] = Palette[FrameBuffer[k]]
        /\ \A i \in 1 .. Len(ChunkEvents) : Len(ChunkEvents[i].data) % Width = 0
        /\ reads = {}

\* an update as claimed by C11 would be seen on a device whose height is a
\* multiple of the chunk: the stream is the frame and nothing else is read
C11_WholeChunksOnly ==
    /\ Updated
    /\ Height % LineUpdateCount = 0
    /\ Len(Stream) = Width * Height
    /\ reads = {}

\* C12: an update whose scratch allocation fails performs no transport write
\* (and no D/C change) and leaves the pixel buffer and the palette as they
\* were; an update whose allocation succeeds, after a failed one or not,
\* streams the whole frame, Palette[FrameBuffer[k]] for k = 0 .. Width*Height-1
\* in order, and leaves buffer and palette as they were.
C12_FailedAllocationSendsNothing ==
    (op.name = "update") =>
        /\ FrameBuffer = prev
        /\ Palette = prevPalette
        /\ IF trace[1].ok
           THEN /\ Len(Stream) >= Width * Height
                /\ \A k \in 0 .. (Width * Height) - 1 :
                      Stream[k + 1] = Palette[FrameBuffer[k]]
           ELSE trace = <<[kind |-> "alloc", ok |-> FALSE]>>

\* an update that streamed a frame of two colours after an earlier update's
\* allocation had failed
C12_Witness ==
    /\ Updated
    /\ failed > 0
    /\ \E k \in 1 .. Width * Height : Stream[k] # Stream[1]
    /\ \A k \in 0 .. (Width * Height) - 1 : Stream[k + 1] = Palette[FrameBuffer[k]]

\* C13: when a transport write of an update reports a failure, the update
\* issues no further transport write: a failed transfer is the last one.
C13_UpdateAbortsOnFailedWrite ==
    (op.name = "update") =>
        \A i \in 1 .. Len(SpiEvents) : ~SpiEvents[i].ok => i = Len(SpiEvents)

\* C19: an update whose scratch allocation succeeds sends the command 0x2A
\* with 4 data bytes, the command 0x2B with 4 data bytes, the command 0x2C,
\* and then only data transfers of Width*4*sizeof(pixel) bytes, at least one;
\* the scratch buffer is released once, after the last transfer; the pixel
\* buffer and the palette are as the update found them.
C19_UpdateTransportOrder ==
    Updated =>
        /\ Len(SpiEvents) > 5
        /\ SpiEvents[1].cmd /\ SpiEvents[1].data = <<42>>
        /\ ~SpiEvents[2].cmd /\ SpiEvents[2].bytes = 4
        /\ SpiEvents[2].data = <<0, 0, ((Width - 1) \div 256) % 256, (Width - 1) % 256>>
        /\ SpiEvents[3].cmd /\ SpiEvents[3].data = <<43>>
        /\ ~SpiEvents[4].cmd /\ SpiEvents[4].bytes = 4
        /\ SpiEvents[4].data = <<0, 0, ((Height - 1) \div 256) % 256, (Height - 1) % 256>>
        /\ SpiEvents[5].cmd /\ SpiEvents[5].data = <<44>>
        /\ \A i \in 6 .. Len(SpiEvents) :
              ~SpiEvents[i].cmd /\ SpiEvents[i].bytes = Width * 4 * PixelSize
        /\ Len(SelectSeq(trace, LAMBDA e : e.kind = "free")) = 1
        /\ trace[Len(trace)].kind = "free"
        /\ trace[Len(trace) - 1].kind = "spi"
        /\ Len(SelectSeq(trace, LAMBDA e : e.kind = "alloc")) = 1
        /\ FrameBuffer = prev
        /\ Palette = prevPalette

\* an update of two pixel chunks, one of whose transfers the transport failed
C19_Witness ==
    /\ Updated
    /\ Len(ChunkEvents) = 2
    /\ \E i \in 1 .. Len(SpiEvents) : ~SpiEvents[i].ok
    /\ trace[Len(trace)].kind = "free"

-----------------------------------------------------------------------------
(* Properties of the lifecycle calls, stated on the state a call leaves.   *)

\* positions in trace of the events of a kind
At(kind) == {i \in 1 .. Len(trace) : trace[i].kind = kind}

\* C14: a TTFT_Init that returns true has invoked the reset procedure exactly
\* once, after the GPIO configuration and the attachment of the transport
\* both succeeded; a TTFT_Init that returns false (NULL handle, no D/C pin,
\* allocation, GPIO configuration or attachment failed) has invoked it zero
\* times, and each of those failures makes it return false.
C14_ResetProcOnceOnSuccess ==
    (op.name = "TTFT_Init") =>
        /\ ret \in {0, 1}
        /\ IF ret = 1
           THEN /\ Cardinality(At("ResetProc")) = 1
                /\ \E i \in At("gpio_config"), j \in At("spi_bus_add_device"),
                      k \in At("ResetProc") :
                      i < j /\ j < k /\ trace[i].ok /\ trace[j].ok
           ELSE At("ResetProc") = {}
        /\ (Arg(1) = 1 \/ Arg(2) = -1) => (ret = 0 /\ trace = <<>>)
        /\ (\E i \in At("malloc") \cup At("gpio_config") \cup At("spi_bus_add_device") :
               ~trace[i].ok) => ret = 0

\* a TTFT_Init that returned true, its reset procedure having pulsed the
\* reset line and sent its commands
C14_Witness ==
    /\ op.name = "TTFT_Init"
    /\ ret = 1
    /\ life = "ready"
    /\ Cardinality(At("ResetProc")) = 1
    /\ \E i \in At("gpio") : trace[i].line = "reset" /\ trace[i].level = 1
    /\ Len(SpiEvents) = ResetTransfers

\* the GPIO level writes of the last call on a logical line
LineWrites(line) == {i \in At("gpio") : trace[i].line = line}

\* C15: on a device whose reset, backlight or D/C line is unused (-1), no
\* call performs a GPIO level write for that line; every level write goes
\* to the pin the line is wired to.
C15_UnusedLineNeverWritten ==
    (life = "ready" \/ op.name = "TTFT_Init") =>
        /\ (pins.ResetPin = -1) => LineWrites("reset") = {}
        /\ (pins.BacklightPin = -1) => LineWrites("backlight") = {}
        /\ (pins.DCPin = -1) => LineWrites("dc") = {}
        /\ \A i \in LineWrites("reset") : trace[i].pin = pins.ResetPin
        /\ \A i \in LineWrites("backlight") : trace[i].pin = pins.BacklightPin
        /\ \A i \in LineWrites("dc") : trace[i].pin = pins.DCPin
        /\ \A i \in At("gpio") : trace[i].pin >= 0

\* a device without reset and backlight lines brought up by TTFT_Init: the
\* reset procedure and the backlight switch ran and the only level writes
\* are the D/C changes of the transfers
C15_Witness ==
    /\ op.name = "TTFT_Init"
    /\ ret = 1
    /\ pins.ResetPin = -1 /\ pins.BacklightPin = -1
    /\ At("ResetProc") # {}
    /\ LineWrites("dc") # {}
    /\ At("gpio") = LineWrites("dc")

-----------------------------------------------------------------------------
(* Properties of drawChar, drawBox and the sloped lines *)

\* the byte of glyph column col of character ch that holds row row
GlyphByte(ch, col, row) ==
    Def(Font).FontData[((ch - Def(Font).StartChar) * RecordLen) + 1
                       + (col * ((Def(Font).Height + 7) \div 8)) + (row \div 8) + 1]

\* the colour drawChar gives glyph cell (col, row): fg where the bit is 1, else bg
CellColour(ch, col, row, FG, BG) ==
    IF (GlyphByte(ch, col, row) \div (2 ^ (row % 8))) % 2 = 1 THEN FG ELSE BG

\* C16: drawChar(c, x, y, fg, bg) of a covered character with glyph width w
\* and font height h writes every glyph cell (col, row), 0 <= col < w,
\* 0 <= row < h, whose pixel (x+col, y+row) is on the screen, with fg where
\* the glyph bit is 1 and bg elsewhere (nothing when that colour is 255), the
\* last column and row of a glyph that reaches the right or bottom edge
\* included; the pixels outside the glyph box are unchanged.
C16_DrawCharWritesEveryVisibleCell ==
    (op.name = "drawChar" /\ Font # NULL /\ InFont(Arg(1))) =>
        /\ \A px \in XRange, py \in YRange :
              LET col == px - Arg(2)
                  row == py - Arg(3)
                  i   == px + (py * Width)
              IN  IF col >= 0 /\ col < WidthOf(Arg(1)) /\ row >= 0 /\ row < Def(Font).Height
                  THEN LET colour == CellColour(Arg(1), col, row, Arg(4), Arg(5))
                       IN  FrameBuffer[i] = IF colour = 255 THEN prev[i] ELSE colour
                  ELSE FrameBuffer[i] = prev[i]
        /\ oob = {}

\* a glyph drawn wholly inside the screen short of both edges, where the
\* code does what C16 says
C16_InsideWitness ==
    /\ op.name = "drawChar" /\ Font # NULL /\ InFont(Arg(1))
    /\ Arg(2) >= 0 /\ Arg(2) + WidthOf(Arg(1)) < Width
    /\ Arg(3) >= 0 /\ Arg(3) + Def(Font).Height < Height
    /\ FrameBuffer # prev

\* the pixels of [x0,x1]x[y0,y1] within t-1 pixels of one of its four edges
Outlines(x0, y0, x1, y1, t) ==
    {xy \in (x0 .. x1) \X (y0 .. y1) :
        \/ xy[1] - x0 <= t - 1 \/ x1 - xy[1] <= t - 1
        \/ xy[2] - y0 <= t - 1 \/ y1 - xy[2] <= t - 1}

\* C17: drawBox(x0, y0, x1, y1, t, c) on a valid rectangle with t >= 0 and
\* c not 255 sets to c exactly the pixels of the rectangle within t-1 pixels
\* of one of its edges and changes no pixel outside the rectangle, whatever t.
C17_BoxPaintsOutlinesOnly ==
    (/\ op.name = "drawBox"
     /\ Arg(1) \in XRange /\ Arg(3) \in XRange /\ Arg(1) <= Arg(3)
     /\ Arg(2) \in YRange /\ Arg(4) \in YRange /\ Arg(2) <= Arg(4)
     /\ op.c # 255) =>
        /\ FrameBuffer = Painted(Outlines(Arg(1), Arg(2), Arg(3), Arg(4), Arg(5)), op.c)
        /\ oob = {}

\* a box whose thickness fits its rectangle, where the code does what C17 says
C17_FittingWitness ==
    /\ op.name = "drawBox"
    /\ Arg(1) \in XRange /\ Arg(3) \in XRange /\ Arg(1) < Arg(3)
    /\ Arg(2) \in YRange /\ Arg(4) \in YRange /\ Arg(2) < Arg(4)
    /\ op.c # 255
    /\ Arg(5) > 0 /\ Arg(5) <= (Arg(3) - Arg(1)) + 1 /\ Arg(5) <= (Arg(4) - Arg(2)) + 1
    /\ \A i \in Pixels : prev[i] # op.c
    /\ FrameBuffer = Painted(Outlines(Arg(1), Arg(2), Arg(3), Arg(4), Arg(5)), op.c)

\* the last call is a drawLine of a sloped line between two points of the
\* screen, in a colour the buffer did not hold
SlopedLine ==
    /\ op.name = "drawLine"
    /\ Arg(1) \in XRange /\ Arg(2) \in YRange
    /\ Arg(3) \in XRange /\ Arg(4) \in YRange
    /\ Arg(1) # Arg(3) /\ Arg(2) # Arg(4)
    /\ op.c # 255
    /\ \A i \in Pixels : prev[i] # op.c

Min(a, b) == IF a < b THEN a ELSE b
Max(a, b) == IF a > b THEN a ELSE b

\* the coordinates the last call painted
Inked == {xy \in XRange \X YRange : FrameBuffer[xy[1] + (xy[2] * Width)] = op.c}

\* C18: a sloped drawLine between points of the screen paints, when
\* |x1-x0| > |y1-y0|, exactly one pixel in each column min(x0,x1) .. max(x0,x1),
\* both endpoints among them; otherwise exactly one pixel in each row
\* min(y0,y1) .. max(y0,y1)-1, the endpoint with the larger y not among them.
\* In both cases every painted pixel lies in the endpoints' bounding box and
\* no other pixel changes.
C18_SlopedLinePixels ==
    SlopedLine =>
        LET x0 == Arg(1)
            y0 == Arg(2)
            x1 == Arg(3)
            y1 == Arg(4)
            top == IF y0 > y1 THEN <<x0, y0>> ELSE <<x1, y1>>
        IN  /\ oob = {}
            /\ \A i \in Pixels : FrameBuffer[i] # op.c => FrameBuffer[i] = prev[i]
            /\ \A xy \in Inked : /\ xy[1] \in Min(x0, x1) .. Max(x0, x1)
                                 /\ xy[2] \in Min(y0, y1) .. Max(y0, y1)
            /\ IF Abs(x1 - x0) > Abs(y1 - y0)
               THEN /\ \A x \in Min(x0, x1) .. Max(x0, x1) :
                          Cardinality({xy \in Inked : xy[1] = x}) = 1
                    /\ <<x0, y0>> \in Inked /\ <<x1, y1>> \in Inked
               ELSE /\ \A y \in Min(y0, y1) .. Max(y0, y1) - 1 :
                          Cardinality({xy \in Inked : xy[2] = y}) = 1
                    /\ \A xy \in Inked : xy[2] # Max(y0, y1)
                    /\ top \notin Inked

\* a tall line two rows high drawn from its lower end: two pixels painted,
\* the end with the larger y left as it was
C18_Witness ==
    /\ SlopedLine
    /\ Arg(2) - Arg(4) = 2
    /\ Abs(Arg(3) - Arg(1)) = 1
    /\ Cardinality(Inked) = 2
    /\ <<Arg(1), Arg(2)>> \notin Inked
    /\ <<Arg(3), Arg(4)>> \in Inked

\* C20: no drawing or text call writes a pixel at a coordinate off the
\* screen: every write has 0 <= x <= Width-1 and 0 <= y <= Height-1.
C20_EveryWriteOnScreen ==
    (op.name \in {"putPixel", "drawHLine", "drawVLine", "drawLine", "fillRect",
                  "drawBox", "drawChar", "drawString"}) =>
        oob = {}

-----------------------------------------------------------------------------
(* Properties of the freed device *)

AfterCalls == {"clear", "putPixel", "drawHLine", "drawVLine", "drawLine", "fillRect",
               "drawBox", "drawChar", "drawString", "measureString", "update"}

\* C21: after TTFT_DeInit no drawing, text or update call writes or reads a
\* pixel of the freed buffer or hands anything to the transport or the heap,
\* and a TTFT_DeInit of a device already freed does not free again; the first
\* TTFT_DeInit frees the buffer once.
C21_NoUseAfterFree ==
    /\ (Freed /\ op.name \in AfterCalls) =>
          /\ oob = {}
          /\ FrameBuffer = prev
          /\ reads = {}
          /\ trace = <<>>
          /\ ret = 0
    /\ (op.name = "deInit") =>
          Len(SelectSeq(trace, LAMBDA e : e.kind = "free")) =
             IF Arg(1) = 0 /\ Arg(2) = 0 THEN 1 ELSE 0
    /\ Freed => (life = "freed" /\ Width = 0 /\ Height = 0 /\ Font = NULL)

\* a sloped drawLine between points of the former screen, made on the handle
\* that TTFT_DeInit has zeroed
C21_Witness ==
    /\ life = "freed"
    /\ op.name = "drawLine"
    /\ Arg(1) \in 0 .. DevWidth - 1 /\ Arg(2) \in 0 .. DevHeight - 1
    /\ Arg(3) \in 0 .. DevWidth - 1 /\ Arg(4) \in 0 .. DevHeight - 1
    /\ Arg(1) # Arg(3) /\ Arg(2) # Arg(4)
    /\ op.c # 255
    /\ oob = {}

=============================================================================
